---- MODULE Spec2Model ----
(***************************************************************************)
(* Model of the spreadsheet-backed customer store of the Delivery Manager: *)
(*   models/customer.py            Customer (the Record)                   *)
(*   models/excel_manager.py       ExcelManager (the Spreadsheet Store)    *)
(*   controllers/main_controller.py MainController (Facade + Query Ranker) *)
(*                                                                         *)
(* Text is a sequence of one-character strings, so that strip(), lower(),  *)
(* replace() and the `in` / startswith tests are computed, not assumed.    *)
(* A worksheet is a sequence of rows, a row a sequence of cells, as        *)
(* pandas.read_excel(header=None) hands them to the code: an empty cell    *)
(* reads as NaN.  Column indices are 1-based here, 0-based in the code.    *)
(***************************************************************************)
EXTENDS Integers, Sequences, FiniteSets, TLC

VARIABLES file, writable, backup, last, customers, filtered_customers, rec, recCall,
          race

vars ==
  <<file, writable, backup, last, customers, filtered_customers, rec, recCall, race>>

(***************************************************************************)
(* Text primitives (Python str)                                            *)
(***************************************************************************)

\* An empty spreadsheet cell as read by pandas, and Python's None.
NaN == <<"NaN">>
NoneVal == <<"None">>

isna(v) == v \in {NaN, NoneVal}

\* str(v): text is itself; None and NaN print as words.
str(v) ==
  IF v = NoneVal THEN <<"N", "o", "n", "e">>
  ELSE IF v = NaN THEN <<"n", "a", "n">>
  ELSE v

\* The characters str.strip() removes.
Whitespace == {" ", "\n", "\r", "\t"}

RECURSIVE lstrip(_)
lstrip(s) ==
  IF s = <<>> THEN <<>>
  ELSE IF Head(s) \in Whitespace THEN lstrip(Tail(s))
  ELSE s

RECURSIVE rstrip(_)
rstrip(s) ==
  IF s = <<>> THEN <<>>
  ELSE IF s[Len(s)] \in Whitespace THEN rstrip(SubSeq(s, 1, Len(s) - 1))
  ELSE s

strip(s) == rstrip(lstrip(s))

\* s.replace('\n', ' ').replace('\r', ' ')
replace_newlines(s) ==
  [i \in 1..Len(s) |-> IF s[i] \in {"\n", "\r"} THEN " " ELSE s[i]]

\* str(v).strip().replace('\n', ' ').replace('\r', ' ')
Clean(v) == replace_newlines(strip(str(v)))

\* sub in s
Contains(sub, s) ==
  \E i \in 1..(Len(s) - Len(sub) + 1) : SubSeq(s, i, i + Len(sub) - 1) = sub

\* s.startswith(p)
StartsWith(s, p) == Len(p) <= Len(s) /\ SubSeq(s, 1, Len(p)) = p

\* The characters of the model in code-point order.
Ascii ==
  <<"\t", "\n", "\r", " ", "0", "1", "2", "3", "4", "5", "6", "7", "8", "9",
    "A", "B", "C", "D", "E", "F", "G", "H", "I", "J", "K", "L", "M",
    "N", "O", "P", "Q", "R", "S", "T", "U", "V", "W", "X", "Y", "Z",
    "a", "b", "c", "d", "e", "f", "g", "h", "i", "j", "k", "l", "m",
    "n", "o", "p", "q", "r", "s", "t", "u", "v", "w", "x", "y", "z">>

OrdTable ==
  [ch \in {Ascii[i] : i \in 1..Len(Ascii)} |->
     CHOOSE i \in 1..Len(Ascii) : Ascii[i] = ch]

Ord(ch) == OrdTable[ch]

\* str.lower() on one character, then on text.
LowerTable ==
  [ch \in DOMAIN OrdTable |->
     IF OrdTable[ch] \in OrdTable["A"]..OrdTable["Z"]
     THEN Ascii[OrdTable[ch] + 26] ELSE ch]

LowerChar(ch) == LowerTable[ch]

Lower(s) == [i \in 1..Len(s) |-> LowerChar(s[i])]

\* a < b for Python strings (lexicographic by code point).
RECURSIVE StrLess(_, _)
StrLess(a, b) ==
  IF b = <<>> THEN FALSE
  ELSE IF a = <<>> THEN TRUE
  ELSE IF Head(a) = Head(b) THEN StrLess(Tail(a), Tail(b))
  ELSE Ord(Head(a)) < Ord(Head(b))

(***************************************************************************)
(* Customer (models/customer.py)                                           *)
(***************************************************************************)

Customer(phone, customer_name, scheduled_delivery_time, apartment_no, address, suburb, postal_code) ==
  [phone |-> phone, customer_name |-> customer_name,
   scheduled_delivery_time |-> scheduled_delivery_time,
   apartment_no |-> apartment_no, address |-> address,
   suburb |-> suburb, postal_code |-> postal_code]

\* Variant: the emptiness test without strip().
Blank_nostrip(s) == s = NoneVal \/ s = <<>>

\* `not s or not s.strip()`
Blank(s) == s = NoneVal \/ s = <<>> \/ strip(s) = <<>>

\* validate(): the object after the call, and whether it raised ValueError.
validate_obj(c) ==
  [c EXCEPT !.phone = IF c.phone = NoneVal THEN <<>> ELSE c.phone]

validate_raises(c) == Blank(c.customer_name) \/ Blank(c.address)

\* The seven header texts ExcelManager.headers / Customer.to_dict use.
H_PHONE == <<"P", "H", "O", "N", "E">>
H_NAME == <<"C", "U", "S", "T", "O", "M", "E", "R", " ", "N", "A", "M", "E">>
H_SCH == <<"S", "C", "H", " ", " ", " ", "\n", "D", "E", "L">>
H_APT == <<"A", "P", "T", "\n", "N", "O">>
H_ADDRESS == <<"A", "D", "D", "R", "E", "S", "S">>
H_SUBURB == <<"S", "U", "B", "U", "R", "B">>
H_PC == <<"P", "C">>

headers == <<H_PHONE, H_NAME, H_SCH, H_APT, H_ADDRESS, H_SUBURB, H_PC>>

HeaderSet == {headers[i] : i \in 1..Len(headers)}

to_dict(c) ==
  [h \in HeaderSet |->
     IF h = H_PHONE THEN c.phone
     ELSE IF h = H_NAME THEN c.customer_name
     ELSE IF h = H_SCH THEN c.scheduled_delivery_time
     ELSE IF h = H_APT THEN c.apartment_no
     ELSE IF h = H_ADDRESS THEN c.address
     ELSE IF h = H_SUBURB THEN c.suburb
     ELSE c.postal_code]

(***************************************************************************)
(* Bounds and inputs                                                       *)
(***************************************************************************)

\* add() is offered while the sheet has fewer data rows than this.
MaxRows == 2

\* The Customers the callers pass.  Between them: a plain record, one with
\* the same natural key and another suburb, one with a padded name, one
\* with an empty phone and one with a whitespace-only phone; every address
\* is a two-line text, and one record has an apartment.
Addr == <<"X", "\n", "Y">>

Customers ==
  {Customer(<<"1">>, <<"A">>, <<>>, <<>>, Addr, <<>>, <<>>),
   Customer(<<"1">>, <<"A">>, <<>>, <<>>, Addr, <<"S">>, <<>>),
   Customer(<<"1">>, <<" ", "B">>, <<>>, <<"x">>, Addr, <<>>, <<>>),
   Customer(<<>>, <<"A">>, <<>>, <<>>, Addr, <<>>, <<>>),
   Customer(<<" ">>, <<"A">>, <<>>, <<>>, Addr, <<"S">>, <<>>)}

Queries == {<<>>, <<" ", "S">>, <<"b">>, <<"x">>}

\* The Facade's add() is offered while its cache is shorter than this.
MaxCache == 2

\* The Customers passed to the Facade: those with a phone number.
FacadeCustomers == {c \in Customers : strip(c.phone) # <<>>}

FacadeQueries == {<<" ">>, <<"A">>}

Nobody == Customer(NoneVal, NoneVal, NoneVal, NoneVal, NoneVal, NoneVal, NoneVal)

\* The value of an expression computed once: The({e(x) : x \in {v}}).
The(S) == CHOOSE x \in S : TRUE

Min(S) == CHOOSE x \in S : \A y \in S : x <= y
Max(S) == CHOOSE x \in S : \A y \in S : x >= y

(***************************************************************************)
(* The backing file and the spreadsheet library                            *)
(***************************************************************************)

\* A file on disk: absent, present but not a workbook, or a sheet of rows.
MissingFile == [exists |-> FALSE, parsable |-> FALSE, rows |-> <<>>]
CorruptFile == [exists |-> TRUE, parsable |-> FALSE, rows |-> <<>>]
Sheet(rows) == [exists |-> TRUE, parsable |-> TRUE, rows |-> rows]

\* pd.read_excel / openpyxl.load_workbook raise on these files.
read_raises(f) == ~f.exists \/ ~f.parsable

EmptyRow(row) == \A j \in 1..Len(row) : isna(row[j]) \/ row[j] = <<>>

RECURSIVE DropTrailingEmpty(_)
DropTrailingEmpty(rows) ==
  IF rows = <<>> THEN <<>>
  ELSE IF EmptyRow(rows[Len(rows)])
       THEN DropTrailingEmpty(SubSeq(rows, 1, Len(rows) - 1))
  ELSE rows

\* df.to_excel(path, index=False, header=False) followed by the next
\* read_excel: None and '' are written as empty cells and read back as NaN,
\* and the reader drops empty rows at the end of the sheet.
to_excel(rows) ==
  The({DropTrailingEmpty(written) :
       written \in {[i \in 1..Len(df) |->
                       [j \in 1..Len(df[i]) |->
                          IF isna(df[i][j]) \/ df[i][j] = <<>> THEN NaN
                          ELSE df[i][j]]] :
                    df \in {rows}}})

\* Variant: the headers are written to row 2 (row 1 stays empty).
NewFile_row2 == Sheet(<<[j \in 1..Len(headers) |-> NaN], headers>>)

\* _create_new_file: a workbook whose row 1 is the seven headers.
NewFile == Sheet(<<headers>>)

(***************************************************************************)
(* ExcelManager: header discovery and column mapping                       *)
(***************************************************************************)

\* any(pd.notna(val) and 'PHONE' in str(val) for val in row)
IsHeaderRow(row) ==
  \E j \in 1..Len(row) : ~isna(row[j]) /\ Contains(H_PHONE, str(row[j]))

\* Variant: the scan stops one row early (range(min(4, len(df)))).
find_header_row_four(rows) ==
  LET n == IF Len(rows) < 4 THEN Len(rows) ELSE 4
      found == {i \in 1..n : IsHeaderRow(rows[i])}
  IN IF found = {} THEN 0 ELSE Min(found)

\* for i in range(min(5, len(df))): ... break; 0 stands for None.
find_header_row(rows) ==
  LET n == IF Len(rows) < 5 THEN Len(rows) ELSE 5
      found == {i \in 1..n : IsHeaderRow(rows[i])}
  IN IF found = {} THEN 0 ELSE Min(found)

\* The if/elif chain over enumerate(header_row): a later column with the
\* same header text overwrites the entry of an earlier one.
column_mapping(header_row) ==
  The({[h \in {g \in HeaderSet : \E j \in 1..Len(hs) : hs[j] = g} |->
          Max({j \in 1..Len(hs) : hs[j] = h})] :
       hs \in {[j \in 1..Len(header_row) |->
                  IF isna(header_row[j]) THEN NaN
                  ELSE strip(str(header_row[j]))]}})

\* row.iloc[column_mapping.get(name, -1)] if name in column_mapping else dflt
RawCell(row, cm, h, dflt) == IF h \in DOMAIN cm THEN row[cm[h]] ELSE dflt

(***************************************************************************)
(* ExcelManager.load_customers                                             *)
(***************************************************************************)

\* Variant: the suburb is tested like the three required fields.
RowAccepted_suburb(row, cm) ==
  \A h \in {H_PHONE, H_NAME, H_ADDRESS, H_SUBURB} :
     LET raw == RawCell(row, cm, h, NoneVal)
     IN ~(isna(raw) \/ strip(str(raw)) = <<>>)

\* The three `continue` tests on phone, name and address.
RowAccepted(row, cm) ==
  \A h \in {H_PHONE, H_NAME, H_ADDRESS} :
     LET raw == RawCell(row, cm, h, NoneVal)
     IN ~(isna(raw) \/ strip(str(raw)) = <<>>)

\* `... if not pd.isna(raw) else ''` for the four optional fields.
OptCell(row, cm, h) ==
  LET raw == RawCell(row, cm, h, <<>>)
  IN IF isna(raw) THEN <<>> ELSE Clean(raw)

RowCustomer(row, cm) ==
  Customer(Clean(RawCell(row, cm, H_PHONE, NoneVal)),
           Clean(RawCell(row, cm, H_NAME, NoneVal)),
           OptCell(row, cm, H_SCH), OptCell(row, cm, H_APT),
           Clean(RawCell(row, cm, H_ADDRESS, NoneVal)),
           OptCell(row, cm, H_SUBURB), OptCell(row, cm, H_PC))

RECURSIVE AcceptedFrom(_, _, _)
AcceptedFrom(rows, cm, i) ==
  IF i > Len(rows) THEN <<>>
  ELSE IF RowAccepted(rows[i], cm) /\ ~validate_raises(RowCustomer(rows[i], cm))
       THEN <<i>> \o AcceptedFrom(rows, cm, i + 1)
  ELSE AcceptedFrom(rows, cm, i + 1)

\* The sheet rows load_customers turns into customers, in file order.
LoadedRows(f) ==
  IF read_raises(f) THEN <<>>
  ELSE LET h == find_header_row(f.rows)
       IN IF h = 0 THEN <<>>
          ELSE The({AcceptedFrom(f.rows, cm, h + 1) :
                    cm \in {column_mapping(f.rows[h])}})

\* What load_customers returns on file f.
load_customers(f) ==
  IF read_raises(f) THEN <<>>
  ELSE IF find_header_row(f.rows) = 0 THEN <<>>
  ELSE The({[k \in 1..Len(idx) |-> RowCustomer(f.rows[idx[k]], cm)] :
            idx \in {LoadedRows(f)},
            cm \in {column_mapping(f.rows[find_header_row(f.rows)])}})

\* Variant: a file that cannot be parsed is replaced as well.
load_file_replacing(f, w) == IF read_raises(f) /\ w THEN NewFile ELSE f

\* The file load_customers leaves: a missing file is created when the
\* location can be written (a failed creation is caught and ignored).
load_file(f, w) == IF ~f.exists /\ w THEN NewFile ELSE f

(***************************************************************************)
(* ExcelManager: construction                                              *)
(***************************************************************************)

\* _save_workbook re-raises a failed save; _create_new_file and
\* _validate_file_structure's except branch call it uncaught.
ensure_creates(f) == read_raises(f)

\* __init__ -> _ensure_file_exists: whether the constructor raises, and the
\* file it leaves.  A readable workbook is only inspected.
init_raises(f, w) == ensure_creates(f) /\ ~w

init_file(f, w) == IF ensure_creates(f) /\ w THEN NewFile ELSE f

(***************************************************************************)
(* ExcelManager: add / update / delete                                     *)
(***************************************************************************)

\* str(x).strip().replace(...) if x else ""
SearchKey(x) == IF x = NoneVal \/ x = <<>> THEN <<>> ELSE Clean(x)

\* The natural key the update/delete scan looks for.
KeyOf(c) == <<SearchKey(c.phone), SearchKey(c.customer_name), SearchKey(c.address)>>

\* The scan's test on one row: rows with a NaN key cell are passed over.
RowMatches(row, cm, key) ==
  LET phone_raw == RawCell(row, cm, H_PHONE, NoneVal)
      name_raw == RawCell(row, cm, H_NAME, NoneVal)
      address_raw == RawCell(row, cm, H_ADDRESS, NoneVal)
  IN /\ ~(isna(phone_raw) \/ isna(name_raw) \/ isna(address_raw))
     /\ <<Clean(phone_raw), Clean(name_raw), Clean(address_raw)>> = key

\* Variant: the scan without `break`, so the last matching row wins.
find_row_last(rows, h, cm, c) ==
  The({IF hits = {} THEN 0 ELSE Max(hits) :
       hits \in {{i \in (h + 1)..Len(rows) : RowMatches(rows[i], cm, key)} :
                 key \in {KeyOf(c)}}})

\* for index in range(header_row_index + 1, len(df)): ... break
\* 0 stands for found_row = None.
find_row(rows, h, cm, c) ==
  The({IF hits = {} THEN 0 ELSE Min(hits) :
       hits \in {{i \in (h + 1)..Len(rows) : RowMatches(rows[i], cm, key)} :
                 key \in {KeyOf(c)}}})

\* new_row = [None] * len(df.columns), filled through the column mapping.
new_row(rows, h, cm, c) ==
  [j \in 1..Len(rows[h]) |->
     IF \E g \in DOMAIN cm : cm[g] = j
     THEN to_dict(c)[CHOOSE g \in DOMAIN cm : cm[g] = j]
     ELSE NoneVal]

\* df.iloc[found_row, col_index] = customer_dict.get(col_name, '')
\* for every mapped column; the other cells of the row stay.
updated_rows(rows, cm, r, c) ==
  [rows EXCEPT ![r] =
     [j \in 1..Len(rows[r]) |->
        IF \E g \in DOMAIN cm : cm[g] = j
        THEN to_dict(c)[CHOOSE g \in DOMAIN cm : cm[g] = j]
        ELSE rows[r][j]]]

\* Variant: the matched row is emptied and stays in place (no re-index).
dropped_rows_gap(rows, r) == [rows EXCEPT ![r] = [j \in 1..Len(rows[r]) |-> NaN]]

\* Variant: the row above the matched one is dropped (index off by one).
dropped_rows_above(rows, r) ==
  SubSeq(rows, 1, r - 2) \o SubSeq(rows, r, Len(rows))

\* df.drop(found_row).reset_index(drop=True)
dropped_rows(rows, r) == SubSeq(rows, 1, r - 1) \o SubSeq(rows, r + 1, Len(rows))

Failed(f) == [ok |-> FALSE, file |-> f]
Wrote(rows) == [ok |-> TRUE, file |-> Sheet(to_excel(rows))]

\* Variant: the new row is written twice.
add_customer_twice(f, w, c) ==
  IF read_raises(f) THEN Failed(f)
  ELSE The({IF h = 0 THEN Failed(f)
            ELSE IF ~w THEN Failed(f)
            ELSE Wrote(f.rows \o
                       <<new_row(f.rows, h, column_mapping(f.rows[h]), c),
                         new_row(f.rows, h, column_mapping(f.rows[h]), c)>>) :
            h \in {find_header_row(f.rows)}})

\* Variant: like load_customers, a missing file is created before the
\* call gives up.
add_customer_creating(f, w, c) ==
  IF read_raises(f) THEN Failed(IF ~f.exists /\ w THEN NewFile ELSE f)
  ELSE The({IF h = 0 THEN Failed(f)
            ELSE IF ~w THEN Failed(f)
            ELSE Wrote(Append(f.rows,
                              new_row(f.rows, h, column_mapping(f.rows[h]), c))) :
            h \in {find_header_row(f.rows)}})

\* add_customer: the result and the file it leaves.
add_customer(f, w, c) ==
  IF read_raises(f) THEN Failed(f)
  ELSE The({IF h = 0 THEN Failed(f)
            ELSE IF ~w THEN Failed(f)
            ELSE Wrote(Append(f.rows,
                              new_row(f.rows, h, column_mapping(f.rows[h]), c))) :
            h \in {find_header_row(f.rows)}})

\* update_customer: the result and the file it leaves.
update_customer(f, w, old, new) ==
  IF read_raises(f) THEN Failed(f)
  ELSE The({IF h = 0 THEN Failed(f)
            ELSE The({The({IF r = 0 THEN Failed(f)
                           ELSE IF ~w THEN Failed(f)
                           ELSE Wrote(updated_rows(f.rows, cm, r, new)) :
                           r \in {find_row(f.rows, h, cm, old)}}) :
                      cm \in {column_mapping(f.rows[h])}}) :
            h \in {find_header_row(f.rows)}})

\* delete_customer: the result and the file it leaves.
delete_customer(f, w, c) ==
  IF read_raises(f) THEN Failed(f)
  ELSE The({IF h = 0 THEN Failed(f)
            ELSE The({IF r = 0 THEN Failed(f)
                      ELSE IF ~w THEN Failed(f)
                      ELSE Wrote(dropped_rows(f.rows, r)) :
                      r \in {find_row(f.rows, h, column_mapping(f.rows[h]), c)}}) :
            h \in {find_header_row(f.rows)}})

(***************************************************************************)
(* ExcelManager: search, statistics, backup                                *)
(***************************************************************************)

\* Variant: the address is searched as well.
StoreMatches_address(c, q) ==
  \/ Contains(q, Lower(c.customer_name))
  \/ Contains(q, Lower(c.phone))
  \/ Contains(q, Lower(c.suburb))
  \/ Contains(q, Lower(c.postal_code))
  \/ Contains(q, Lower(c.address))

\* The `if` of the search loop: query in name, phone, suburb or postal code.
StoreMatches(c, q) ==
  \/ Contains(q, Lower(c.customer_name))
  \/ Contains(q, Lower(c.phone))
  \/ Contains(q, Lower(c.suburb))
  \/ Contains(q, Lower(c.postal_code))

\* ExcelManager.search_customers on file f: query.lower().strip()
store_search(f, query) ==
  LET q == strip(Lower(query))
      Hit(c) == StoreMatches(c, q)
  IN IF q = <<>> THEN load_customers(f)
     ELSE SelectSeq(load_customers(f), Hit)

\* Variant: the suburb count tests the phone field.
get_statistics_suburb_as_phone(f) ==
  LET cs == load_customers(f)
      HasPhone(c) == strip(c.phone) # <<>>
      HasAddress(c) == strip(c.address) # <<>>
      HasPc(c) == strip(c.postal_code) # <<>>
  IN [total_customers |-> Len(cs),
      customers_with_phone |-> Len(SelectSeq(cs, HasPhone)),
      customers_with_address |-> Len(SelectSeq(cs, HasAddress)),
      customers_with_suburb |-> Len(SelectSeq(cs, HasPhone)),
      customers_with_postal_code |-> Len(SelectSeq(cs, HasPc))]

\* get_statistics on file f, as the five counts in the code's order.
get_statistics(f) ==
  LET cs == load_customers(f)
      HasPhone(c) == strip(c.phone) # <<>>
      HasAddress(c) == strip(c.address) # <<>>
      HasSuburb(c) == strip(c.suburb) # <<>>
      HasPc(c) == strip(c.postal_code) # <<>>
  IN [total_customers |-> Len(cs),
      customers_with_phone |-> Len(SelectSeq(cs, HasPhone)),
      customers_with_address |-> Len(SelectSeq(cs, HasAddress)),
      customers_with_suburb |-> Len(SelectSeq(cs, HasSuburb)),
      customers_with_postal_code |-> Len(SelectSeq(cs, HasPc))]

\* backup_file: shutil.copy2 raises when the source is absent or the target
\* cannot be written; otherwise the copy holds the source's content.
backup_ok(f, w) == f.exists /\ w

\* Variant: the file is moved to the backup path (shutil.move).
backup_file_moving(f, b, w) ==
  [ok |-> backup_ok(f, w),
   file |-> IF backup_ok(f, w) THEN MissingFile ELSE f,
   backup |-> IF backup_ok(f, w) THEN f ELSE b]

\* backup_file on file f with b at the backup path: the result, the file
\* and the backup it leaves.
backup_file(f, b, w) ==
  [ok |-> backup_ok(f, w), file |-> f,
   backup |-> IF backup_ok(f, w) THEN f ELSE b]

(***************************************************************************)
(* MainController (controllers/main_controller.py)                         *)
(***************************************************************************)

NameKey(c) == Lower(c.customer_name)

\* Position of c in a list sorted by the key: behind every element whose
\* key is not greater, which keeps sorted() stable.
RECURSIVE InsertByName(_, _)
InsertByName(sorted, c) ==
  IF sorted = <<>> THEN <<c>>
  ELSE IF StrLess(NameKey(c), NameKey(Head(sorted)))
       THEN <<c>> \o sorted
  ELSE <<Head(sorted)>> \o InsertByName(Tail(sorted), c)

RECURSIVE SortFrom(_, _)
SortFrom(acc, rest) ==
  IF rest = <<>> THEN acc
  ELSE The({SortFrom(a, Tail(rest)) : a \in {InsertByName(acc, Head(rest))}})

\* Variant: the list is returned in the order given.
sort_customers_unsorted(cs) == cs

\* sorted(customers, key=lambda c: c.customer_name.lower())
sort_customers_alphabetically(cs) == The({SortFrom(<<>>, l) : l \in {cs}})

\* Variant: a blank query returns the copy of the list as it is.
search_customers_blank_as_is(cs, query) ==
  IF strip(query) = <<>> THEN cs
  ELSE LET q == strip(Lower(query))
           Exact(c) == StartsWith(NameKey(c), q)
           Partial(c) == ~Exact(c) /\ StoreMatches(c, q)
       IN sort_customers_alphabetically(SelectSeq(cs, Exact))
            \o sort_customers_alphabetically(SelectSeq(cs, Partial))

\* Variant: `if` instead of `elif`, a prefix match is also a partial match.
search_customers_both_buckets(cs, query) ==
  IF strip(query) = <<>> THEN sort_customers_alphabetically(cs)
  ELSE LET q == strip(Lower(query))
           Exact(c) == StartsWith(NameKey(c), q)
           Partial(c) == StoreMatches(c, q)
       IN sort_customers_alphabetically(SelectSeq(cs, Exact))
            \o sort_customers_alphabetically(SelectSeq(cs, Partial))

\* Variant: the substring matches come before the prefix matches.
search_customers_partial_first(cs, query) ==
  IF strip(query) = <<>> THEN sort_customers_alphabetically(cs)
  ELSE LET q == strip(Lower(query))
           Exact(c) == StartsWith(NameKey(c), q)
           Partial(c) == ~Exact(c) /\ StoreMatches(c, q)
       IN sort_customers_alphabetically(SelectSeq(cs, Partial))
            \o sort_customers_alphabetically(SelectSeq(cs, Exact))

\* MainController.search_customers: the new filtered_customers.
search_customers(cs, query) ==
  IF strip(query) = <<>> THEN sort_customers_alphabetically(cs)
  ELSE LET q == strip(Lower(query))
           Exact(c) == StartsWith(NameKey(c), q)
           Partial(c) == ~Exact(c) /\ StoreMatches(c, q)
       IN sort_customers_alphabetically(SelectSeq(cs, Exact))
            \o sort_customers_alphabetically(SelectSeq(cs, Partial))

\* The loops of update_customer: the first element equal to old on
\* (phone, customer_name, address) is replaced by new.
SameKeyFields(a, b) ==
  a.phone = b.phone /\ a.customer_name = b.customer_name /\ a.address = b.address

replace_first(cs, old, new) ==
  LET hits == {i \in 1..Len(cs) : SameKeyFields(cs[i], old)}
  IN IF hits = {} THEN cs ELSE [cs EXCEPT ![Min(hits)] = new]

\* `if customer in lst: lst.remove(customer)`: dataclass equality compares
\* all seven fields.
remove_first(cs, c) ==
  LET hits == {i \in 1..Len(cs) : cs[i] = c}
  IN IF hits = {} THEN cs
     ELSE SubSeq(cs, 1, Min(hits) - 1) \o SubSeq(cs, Min(hits) + 1, Len(cs))

(***************************************************************************)
(* State machine                                                           *)
(***************************************************************************)

\* The last call: its name, arguments, outcome and the file it started on.
Call(op, ok, raised, out, c, c2, pre) ==
  [op |-> op, ok |-> ok, raised |-> raised, out |-> out,
   c |-> c, c2 |-> c2, pre |-> pre, query |-> <<>>]

\* Two browser sessions, each with its own ExcelManager on the one file.
Sessions == {1, 2}

\* A session's call in progress: where it stands (idle, read: the sheet is
\* in its DataFrame, done: it returned), the call, the DataFrame and the
\* value returned.
IdleSession ==
  [pc |-> "idle", op |-> "none", c |-> Nobody, c2 |-> Nobody,
   df |-> MissingFile, ok |-> FALSE]

\* `order` lists the sessions in the order of their to_excel.
NoRace == [s |-> [x \in Sessions |-> IdleSession], order |-> <<>>]

\* Sheets found on disk: the one the program creates; a hand-edited one
\* with a blank row above a reordered, partial header; one with a title row
\* above the header; one without any header.
RowA == <<<<"X", "\n", "Y">>, <<"A">>, NaN, <<"1">>>>

OffsetSheet ==
  <<<<NaN, NaN, NaN, NaN>>, <<H_ADDRESS, H_NAME, H_SUBURB, H_PHONE>>, RowA>>

TitledSheet ==
  <<<<H_PHONE \o <<" ", "L", "I", "S", "T">>, NaN, NaN>>,
    <<H_PHONE, H_NAME, H_ADDRESS>>,
    <<<<"1">>, <<"A">>, <<"X", " ", "Y">>>>>>

HeaderlessSheet == <<<<<<"1">>, <<"A">>, <<"X", " ", "Y">>>>>>

\* A sheet whose header row names PHONE in two columns.
TwoPhoneSheet ==
  <<<<H_PHONE, H_NAME, H_ADDRESS, H_PHONE>>,
    <<<<"1">>, <<"A">>, <<"X", " ", "Y">>, <<"2">>>>>>

\* A sheet with a title row above the header and no data row yet.
TitledEmptySheet ==
  <<<<H_PHONE \o <<" ", "L", "I", "S", "T">>, NaN, NaN>>,
    <<H_PHONE, H_NAME, H_ADDRESS>>>>

\* A sheet with an empty row between its two data rows.
GapSheet ==
  <<<<H_PHONE, H_NAME, H_ADDRESS>>,
    <<<<"1">>, <<"A">>, <<"X", " ", "Y">>>>,
    <<NaN, NaN, NaN>>,
    <<<<"1">>, <<"B">>, <<"X", " ", "Y">>>>>>

InitFiles ==
  {MissingFile, CorruptFile, NewFile, Sheet(OffsetSheet), Sheet(TitledSheet),
   Sheet(HeaderlessSheet), Sheet(TwoPhoneSheet), Sheet(TitledEmptySheet),
   Sheet(GapSheet)}

Init ==
  /\ file \in InitFiles
  /\ writable \in BOOLEAN
  /\ backup = MissingFile
  /\ last = Call("none", FALSE, FALSE, <<>>, Nobody, Nobody, file)
  /\ customers = <<>>
  /\ filtered_customers = <<>>
  /\ rec = Nobody
  /\ recCall = [op |-> "none", args |-> Nobody, kwargs |-> <<>>, raised |-> FALSE]
  /\ race = NoRace

facadeVars == <<customers, filtered_customers>>
recVars == <<rec, recCall>>

\* ExcelManager(file_path)
StoreInit ==
  /\ file' = init_file(file, writable)
  /\ last' = Call("init", ~init_raises(file, writable),
                  init_raises(file, writable), <<>>, Nobody, Nobody, file)
  /\ UNCHANGED <<writable, backup, facadeVars, recVars, race>>

StoreLoad ==
  /\ file' = load_file(file, writable)
  /\ last' = Call("load", TRUE, FALSE, load_customers(file), Nobody, Nobody, file)
  /\ UNCHANGED <<writable, backup, facadeVars, recVars, race>>

\* The number of rows below the header row.
DataRows(f) == Len(f.rows) - find_header_row(f.rows)

StoreAdd(c) ==
  /\ DataRows(file) < MaxRows
  /\ \E res \in {add_customer(file, writable, c)} :
        /\ file' = res.file
        /\ last' = Call("add", res.ok, FALSE, <<>>, c, Nobody, file)
  /\ UNCHANGED <<writable, backup, facadeVars, recVars, race>>

StoreUpdate(old, new) ==
  /\ \E res \in {update_customer(file, writable, old, new)} :
        /\ file' = res.file
        /\ last' = Call("update", res.ok, FALSE, <<>>, old, new, file)
  /\ UNCHANGED <<writable, backup, facadeVars, recVars, race>>

StoreDelete(c) ==
  /\ \E res \in {delete_customer(file, writable, c)} :
        /\ file' = res.file
        /\ last' = Call("delete", res.ok, FALSE, <<>>, c, Nobody, file)
  /\ UNCHANGED <<writable, backup, facadeVars, recVars, race>>

StoreSearch(q) ==
  /\ file' = load_file(file, writable)
  /\ last' = [Call("search", TRUE, FALSE, store_search(file, q), Nobody, Nobody, file)
                 EXCEPT !.query = q]
  /\ UNCHANGED <<writable, backup, facadeVars, recVars, race>>

StoreStatistics ==
  /\ file' = load_file(file, writable)
  /\ last' = Call("statistics", TRUE, FALSE, <<get_statistics(file)>>, Nobody, Nobody, file)
  /\ UNCHANGED <<writable, backup, facadeVars, recVars, race>>

StoreBackup ==
  /\ \E res \in {backup_file(file, backup, writable)} :
        /\ file' = res.file
        /\ backup' = res.backup
        /\ last' = Call("backup", res.ok, FALSE, <<>>, Nobody, Nobody, file)
  /\ UNCHANGED <<writable, facadeVars, recVars, race>>

Next ==
  \/ StoreInit
  \/ StoreLoad
  \/ \E c \in Customers : StoreAdd(c)
  \/ \E old \in Customers, new \in Customers : StoreUpdate(old, new)
  \/ \E c \in Customers : StoreDelete(c)
  \/ \E q \in Queries : StoreSearch(q)
  \/ StoreStatistics

Spec == Init /\ [][Next]_vars

(***************************************************************************)
(* The store with backups                                                  *)
(***************************************************************************)

NextBackup ==
  \/ StoreBackup
  \/ StoreInit
  \/ \E c \in FacadeCustomers : StoreAdd(c)
  \/ \E c \in FacadeCustomers : StoreDelete(c)

SpecBackup == Init /\ [][NextBackup]_vars

(***************************************************************************)
(* The Record on its own: construction and Customer.update                 *)
(***************************************************************************)

\* What a caller may pass for the validated fields.
RawPhones == {NoneVal, <<>>, <<" ">>, <<"1">>}
RawNames == {NoneVal, <<>>, <<" ", "\n">>, <<"A">>, <<" ", "B">>}
RawAddresses == {NoneVal, <<>>, <<"\t">>, Addr}
RawSuburbs == {<<>>, <<"S">>}

Fields ==
  {"phone", "customer_name", "scheduled_delivery_time", "apartment_no",
   "address", "suburb", "postal_code"}

\* Keyword arguments of Customer.update: one field, name and address
\* together, or a keyword that is no attribute of the class.
Kwargs ==
  {[k \in {"phone"} |-> p] : p \in RawPhones}
    \cup {[k \in {"customer_name"} |-> n] : n \in RawNames}
    \cup {[k \in {"address"} |-> a] : a \in RawAddresses}
    \cup {[k \in {"customer_name", "address"} |-> IF k = "address" THEN a ELSE n] :
            n \in {<<>>, <<"A">>}, a \in {<<"\t">>, Addr}}
    \cup {[k \in {"nickname"} |-> <<"N">>]}

\* for key, value in kwargs.items(): if hasattr(self, key): setattr(...)
setattrs(c, kw) ==
  [f \in Fields |-> IF f \in DOMAIN kw THEN kw[f] ELSE c[f]]

\* Customer(...): __post_init__ validates; a raise yields no object.
RecConstruct(p, n, a, s) ==
  /\ \E c \in {Customer(p, n, <<>>, <<>>, a, s, <<>>)} :
        /\ rec' = IF validate_raises(c) THEN Nobody ELSE validate_obj(c)
        /\ recCall' = [op |-> "construct", args |-> c, kwargs |-> <<>>,
                       raised |-> validate_raises(c)]
  /\ UNCHANGED <<file, writable, backup, last, facadeVars, race>>

\* rec.update(**kw): the attributes are set first, validate() runs last.
RecUpdate(kw) ==
  /\ rec # Nobody
  /\ \E c \in {setattrs(rec, kw)} :
        /\ rec' = validate_obj(c)
        /\ recCall' = [op |-> "update", args |-> rec, kwargs |-> kw,
                       raised |-> validate_raises(c)]
  /\ UNCHANGED <<file, writable, backup, last, facadeVars, race>>

NextRecord ==
  \/ \E p \in RawPhones, n \in RawNames, a \in RawAddresses, s \in RawSuburbs :
        RecConstruct(p, n, a, s)
  \/ \E kw \in Kwargs : RecUpdate(kw)

\* The Record does not touch the store: one file state suffices.
InitRecord == Init /\ file = NewFile /\ writable

SpecRecord == InitRecord /\ [][NextRecord]_vars

(***************************************************************************)
(* The Facade: MainController over its own ExcelManager                    *)
(***************************************************************************)

\* MainController(): ExcelManager() must not raise, then load_customers().
InitFacade ==
  /\ writable \in BOOLEAN
  /\ \E f0 \in InitFiles :
        /\ ~init_raises(f0, writable)
        /\ file = load_file(init_file(f0, writable), writable)
        /\ customers = load_customers(init_file(f0, writable))
        /\ last = Call("f_init", TRUE, FALSE, <<>>, Nobody, Nobody, f0)
  /\ filtered_customers = sort_customers_alphabetically(customers)
  /\ backup = MissingFile
  /\ rec = Nobody
  /\ recCall = [op |-> "none", args |-> Nobody, kwargs |-> <<>>, raised |-> FALSE]
  /\ race = NoRace

FacadeLoad ==
  /\ file' = load_file(file, writable)
  /\ customers' = load_customers(file)
  /\ filtered_customers' = sort_customers_alphabetically(load_customers(file))
  /\ last' = Call("f_load", TRUE, FALSE, load_customers(file), Nobody, Nobody, file)
  /\ UNCHANGED <<writable, backup, recVars, race>>

FacadeSearch(q) ==
  /\ filtered_customers' = search_customers(customers, q)
  /\ last' = [Call("f_search", TRUE, FALSE, search_customers(customers, q),
                   Nobody, Nobody, file) EXCEPT !.query = q]
  /\ UNCHANGED <<file, writable, backup, customers, recVars, race>>

FacadeAdd(c) ==
  /\ DataRows(file) < MaxRows
  /\ Len(customers) < MaxCache
  /\ \E res \in {add_customer(file, writable, c)} :
        /\ file' = res.file
        /\ customers' = IF res.ok THEN Append(customers, c) ELSE customers
        /\ filtered_customers' =
             IF res.ok THEN sort_customers_alphabetically(Append(customers, c))
             ELSE filtered_customers
        /\ last' = Call("f_add", res.ok, FALSE, <<>>, c, Nobody, file)
  /\ UNCHANGED <<writable, backup, recVars, race>>

FacadeUpdate(old, new) ==
  /\ \E res \in {update_customer(file, writable, old, new)} :
        /\ file' = res.file
        /\ customers' =
             IF res.ok THEN replace_first(customers, old, new) ELSE customers
        /\ filtered_customers' =
             IF res.ok
             THEN sort_customers_alphabetically(
                    replace_first(filtered_customers, old, new))
             ELSE filtered_customers
        /\ last' = Call("f_update", res.ok, FALSE, <<>>, old, new, file)
  /\ UNCHANGED <<writable, backup, recVars, race>>

FacadeDelete(c) ==
  /\ \E res \in {delete_customer(file, writable, c)} :
        /\ file' = res.file
        /\ customers' = IF res.ok THEN remove_first(customers, c) ELSE customers
        /\ filtered_customers' =
             IF res.ok THEN remove_first(filtered_customers, c)
             ELSE filtered_customers
        /\ last' = Call("f_delete", res.ok, FALSE, <<>>, c, Nobody, file)
  /\ UNCHANGED <<writable, backup, recVars, race>>

NextFacade ==
  \/ FacadeLoad
  \/ \E q \in FacadeQueries : FacadeSearch(q)
  \/ \E c \in FacadeCustomers : FacadeAdd(c)
  \/ \E old \in FacadeCustomers, new \in FacadeCustomers : FacadeUpdate(old, new)
  \/ \E c \in FacadeCustomers : FacadeDelete(c)

SpecFacade == InitFacade /\ [][NextFacade]_vars

(***************************************************************************)
(* Two sessions writing the same file: pd.read_excel and df.to_excel of a  *)
(* mutating call are separate steps and nothing locks the file in between  *)
(***************************************************************************)

\* The calls the two sessions make.
RaceCalls ==
  {[op |-> "add", c |-> Customer(<<"1">>, <<"A">>, <<>>, <<>>, Addr, <<>>, <<>>),
    c2 |-> Nobody],
   [op |-> "add", c |-> Customer(<<"1">>, <<" ", "B">>, <<>>, <<>>, Addr, <<>>, <<>>),
    c2 |-> Nobody],
   [op |-> "update", c |-> Customer(<<"1">>, <<"A">>, <<>>, <<>>, Addr, <<>>, <<>>),
    c2 |-> Customer(<<"1">>, <<"A">>, <<>>, <<>>, Addr, <<"S">>, <<>>)],
   [op |-> "delete", c |-> Customer(<<"1">>, <<"A">>, <<>>, <<>>, Addr, <<>>, <<>>),
    c2 |-> Nobody]}

\* Variant: the call works on the file as it is at the time of writing
\* (as if the read and the write were one step).
session_rewrite_current(op, df, cur, w, c, c2) ==
  IF op = "add" THEN add_customer(cur, w, c)
  ELSE IF op = "update" THEN update_customer(cur, w, c, c2)
  ELSE delete_customer(cur, w, c)

\* The rest of the call after pd.read_excel: it works on the DataFrame df
\* read earlier; the file `cur` as it is now is never looked at again.
session_rewrite(op, df, cur, w, c, c2) ==
  IF op = "add" THEN add_customer(df, w, c)
  ELSE IF op = "update" THEN update_customer(df, w, c, c2)
  ELSE delete_customer(df, w, c)

\* df = pd.read_excel(self.file_path, header=None); a file that cannot be
\* read makes the call return False at once.
SessionRead(x, call) ==
  /\ race.s[x].pc = "idle"
  /\ call.op = "add" => DataRows(file) < MaxRows
  /\ race' = [race EXCEPT !.s[x] =
                 [pc |-> IF read_raises(file) THEN "done" ELSE "read",
                  op |-> call.op, c |-> call.c, c2 |-> call.c2,
                  df |-> file, ok |-> FALSE]]
  /\ UNCHANGED <<file, writable, backup, last, facadeVars, recVars>>

\* The scan, the change to the DataFrame and df.to_excel(self.file_path).
SessionRewrite(x) ==
  /\ race.s[x].pc = "read"
  /\ \E res \in {session_rewrite(race.s[x].op, race.s[x].df, file, writable,
                                  race.s[x].c, race.s[x].c2)} :
        /\ file' = IF res.ok THEN res.file ELSE file
        /\ race' = [race EXCEPT !.s[x].pc = "done", !.s[x].ok = res.ok,
                                !.order = IF res.ok THEN Append(@, x) ELSE @]
  /\ UNCHANGED <<writable, backup, last, facadeVars, recVars>>

NextRace ==
  \/ \E x \in Sessions, call \in RaceCalls : SessionRead(x, call)
  \/ \E x \in Sessions : SessionRewrite(x)

SpecRace == Init /\ [][NextRace]_vars

(***************************************************************************)
(* The Query Ranker: MainController.search_customers over a loaded cache   *)
(***************************************************************************)

AnnSmith == <<"A", "n", "n", " ", "S", "m", "i", "t", "h">>
BanningLee == <<"B", "a", "n", "n", "i", "n", "g", " ", "L", "e", "e">>
CarlaAnn == <<"C", "a", "r", "l", "a", " ", "A", "n", "n">>

\* The records of the sheet: three that match "ann" in the name, one that
\* matches it in the suburb only, one that does not match it.
RankerCustomers ==
  {Customer(<<"1">>, AnnSmith, <<>>, <<>>, <<"X">>, <<>>, <<>>),
   Customer(<<"2">>, BanningLee, <<>>, <<>>, <<"X">>, <<>>, <<>>),
   Customer(<<"3">>, CarlaAnn, <<>>, <<>>, <<"X">>, <<>>, <<>>),
   Customer(<<"4">>, <<"e", "d">>, <<>>, <<>>, <<"X">>, <<"A", "N", "N">>, <<>>),
   Customer(<<"5">>, <<"B", "o">>, <<>>, <<>>, <<"X">>, <<>>, <<>>)}

RankerQueries == {<<"a", "n", "n">>, <<" ", "A", "n", "N", " ">>, <<"E">>, <<" ">>, <<>>}

\* The sheets on disk: up to three of the records, in any order.
RankerSheets ==
  {cs \in UNION {[1..n -> RankerCustomers] : n \in 0..3} :
     \A i, j \in 1..Len(cs) : i # j => cs[i] # cs[j]}

\* The rows add_customer has written for the records cs.
SheetOf(cs) ==
  Sheet(to_excel(<<headers>> \o
                 [i \in 1..Len(cs) |->
                    [j \in 1..Len(headers) |-> to_dict(cs[i])[headers[j]]]]))

\* MainController() over such a sheet.
InitRanker ==
  /\ writable = TRUE
  /\ \E cs \in RankerSheets :
        /\ file = SheetOf(cs)
        /\ customers = load_customers(SheetOf(cs))
        /\ last = Call("f_init", TRUE, FALSE, <<>>, Nobody, Nobody, SheetOf(cs))
  /\ filtered_customers = sort_customers_alphabetically(customers)
  /\ backup = MissingFile
  /\ rec = Nobody
  /\ recCall = [op |-> "none", args |-> Nobody, kwargs |-> <<>>, raised |-> FALSE]
  /\ race = NoRace

NextRanker ==
  \/ \E q \in RankerQueries : FacadeSearch(q)
  \/ FacadeLoad

SpecRanker == InitRanker /\ [][NextRanker]_vars

(***************************************************************************)
(* DataExporter (utils/exporter.py)                                        *)
(***************************************************************************)

\* The column headers both export formats write.
E_PHONE == <<"P", "h", "o", "n", "e">>
E_NAME == <<"C", "u", "s", "t", "o", "m", "e", "r", " ", "N", "a", "m", "e">>
E_SCH == <<"S", "c", "h", "e", "d", "u", "l", "e", "d", " ", "D", "e", "l", "i", "v", "e", "r", "y", " ", "T", "i", "m", "e">>
E_APT == <<"A", "p", "a", "r", "t", "m", "e", "n", "t", " ", "N", "o">>
E_ADDRESS == <<"A", "d", "d", "r", "e", "s", "s">>
E_SUBURB == <<"S", "u", "b", "u", "r", "b">>
E_PC == <<"P", "o", "s", "t", "a", "l", " ", "C", "o", "d", "e">>
E_DATE == <<"E", "x", "p", "o", "r", "t", " ", "D", "a", "t", "e">>

export_headers == <<E_PHONE, E_NAME, E_SCH, E_APT, E_ADDRESS, E_SUBURB, E_PC, E_DATE>>

\* datetime.now().strftime(...): the texts the clock may give.
ExportDates == {<<"2", "0", "2", "5">>, <<"2", "0", "2", "6">>}

\* One exported row: the seven fields and the export date.
export_row(c, export_date) ==
  <<c.phone, c.customer_name, c.scheduled_delivery_time, c.apartment_no,
    c.address, c.suburb, c.postal_code, export_date>>

\* export_to_csv: the rows csv.writer writes; nothing for an empty list.
export_to_csv(cs, export_date) ==
  IF cs = <<>> THEN <<>>
  ELSE <<export_headers>> \o [i \in 1..Len(cs) |-> export_row(cs[i], export_date)]

\* export_to_excel: the cells of the worksheet, row 1 the headers, the
\* customers from row 2 on; nothing for an empty list.
export_to_excel(cs, export_date) ==
  IF cs = <<>> THEN <<>>
  ELSE [r \in 1..(Len(cs) + 1) |->
          IF r = 1 THEN export_headers ELSE export_row(cs[r - 1], export_date)]

\* The export buttons, on the records shown.
FacadeExportCsv(export_date) ==
  /\ last' = Call("export_csv", export_to_csv(filtered_customers, export_date) # <<>>,
                  FALSE, export_to_csv(filtered_customers, export_date),
                  Nobody, Nobody, file)
  /\ UNCHANGED <<file, writable, backup, facadeVars, recVars, race>>

FacadeExportExcel(export_date) ==
  /\ last' = Call("export_xlsx", export_to_excel(filtered_customers, export_date) # <<>>,
                  FALSE, export_to_excel(filtered_customers, export_date),
                  Nobody, Nobody, file)
  /\ UNCHANGED <<file, writable, backup, facadeVars, recVars, race>>

NextExport ==
  \/ \E d \in ExportDates : FacadeExportCsv(d)
  \/ \E d \in ExportDates : FacadeExportExcel(d)
  \/ \E q \in RankerQueries : FacadeSearch(q)

SpecExport == InitRanker /\ [][NextExport]_vars

(***************************************************************************)
(* Properties                                                              *)
(***************************************************************************)

\* Some record of cs has the natural key `key`.
HasKey(cs, key) == \E i \in 1..Len(cs) : KeyOf(cs[i]) = key

\* The record with every field trimmed and its line breaks replaced.
Normalized(c) ==
  Customer(SearchKey(c.phone), SearchKey(c.customer_name),
           SearchKey(c.scheduled_delivery_time), SearchKey(c.apartment_no),
           SearchKey(c.address), SearchKey(c.suburb), SearchKey(c.postal_code))

\* The rows of f below the header whose natural key is that of c.
MatchingRows(f, c) ==
  IF read_raises(f) \/ find_header_row(f.rows) = 0 THEN {}
  ELSE {i \in (find_header_row(f.rows) + 1)..Len(f.rows) :
          RowMatches(f.rows[i],
                     column_mapping(f.rows[find_header_row(f.rows)]), KeyOf(c))}

Range(seq) == {seq[i] : i \in 1..Len(seq)}

StoreMutations == {"add", "update", "delete"}

\* C1: whenever add(r) returned true, load() on the resulting file contains
\* a record whose normalized (phone, name, address) equals r's.
C1_AddedIsLoaded ==
  (last.op = "add" /\ last.ok) => HasKey(load_customers(file), KeyOf(last.c))

\* C2: whenever update(old, new) returned true, load() on the resulting
\* file yields new's fields from the row that matched old's key, and no
\* loaded record has old's key unless old and new agree on the key.
C2_UpdatedIsLoaded ==
  (last.op = "update" /\ last.ok) =>
     \A r \in {Min(MatchingRows(last.pre, last.c))} :
        /\ r \in Range(LoadedRows(file))
        /\ RowCustomer(file.rows[r],
                       column_mapping(file.rows[find_header_row(file.rows)]))
             = Normalized(last.c2)
        /\ KeyOf(last.c) # KeyOf(last.c2) =>
             ~HasKey(load_customers(file), KeyOf(last.c))

\* C3 as stated: whenever delete(r) returned true, load() on the resulting
\* file contains no record with r's natural key.
C3_DeletedKeyGone ==
  (last.op = "delete" /\ last.ok) => ~HasKey(load_customers(file), KeyOf(last.c))

\* C3 amended: whenever delete(r) returned true and exactly one row of the
\* file had r's natural key before the call, load() on the resulting file
\* contains no record with r's natural key.
C3_DeletedKeyGoneIfUnique ==
  (last.op = "delete" /\ last.ok /\ Cardinality(MatchingRows(last.pre, last.c)) = 1)
     => ~HasKey(load_customers(file), KeyOf(last.c))

\* A delete that removed the only row with its key, a row load() returned.
C3_Witness ==
  /\ last.op = "delete" /\ last.ok
  /\ Cardinality(MatchingRows(last.pre, last.c)) = 1
  /\ HasKey(load_customers(last.pre), KeyOf(last.c))
  /\ Len(load_customers(last.pre)) = 2

\* C4: whenever delete(r) returned true, load() returns exactly one record
\* fewer than it returned immediately before the call.
C4_DeleteCountsOne ==
  (last.op = "delete" /\ last.ok) =>
     Len(load_customers(file)) = Len(load_customers(last.pre)) - 1

C7_NothingRaised == ~last.raised

\* C8: a successful update(old, new) overwrites the first row, top to
\* bottom, that has old's key: that row gets new's values in the mapped
\* columns, and every other row of the file keeps its cells.
C8_UpdateFirstOnly ==
  (last.op = "update" /\ last.ok) =>
     \A first \in {Min(MatchingRows(last.pre, last.c))},
        cm \in {column_mapping(last.pre.rows[find_header_row(last.pre.rows)])} :
        /\ Len(file.rows) = Len(last.pre.rows)
        /\ \A i \in 1..Len(file.rows) :
              i # first => file.rows[i] = last.pre.rows[i]
        /\ \A j \in 1..Len(file.rows[first]) :
              file.rows[first][j] =
                IF \E g \in DOMAIN cm : cm[g] = j
                THEN LET v == to_dict(last.c2)[CHOOSE g \in DOMAIN cm : cm[g] = j]
                     IN IF v = <<>> THEN NaN ELSE v
                ELSE last.pre.rows[first][j]

\* A successful update on a sheet with two rows of old's key, which changed
\* the first of them.
C8_Witness ==
  /\ last.op = "update" /\ last.ok
  /\ Cardinality(MatchingRows(last.pre, last.c)) >= 2
  /\ file # last.pre

\* C5: after every successful Facade add, update or delete, the Facade's
\* customers list equals what load() returns for the file as it then is.
C5_MirrorIsLoad ==
  (last.op \in {"f_add", "f_update", "f_delete"} /\ last.ok) =>
     customers = load_customers(file)

\* Text that is unset, empty or made of whitespace only.
IsBlankText(t) == t = NoneVal \/ \A i \in 1..Len(t) : t[i] \in Whitespace

\* C9: constructing a Record with a blank name or a blank address raises
\* and yields no Record; with a non-blank name and address it succeeds for
\* any phone, an unset phone being stored as the empty string.
C9_ConstructionValidates ==
  recCall.op = "construct" =>
     IF IsBlankText(recCall.args.customer_name) \/ IsBlankText(recCall.args.address)
     THEN recCall.raised /\ rec = Nobody
     ELSE /\ ~recCall.raised
          /\ rec = [recCall.args EXCEPT
                      !.phone = IF @ = NoneVal THEN <<>> ELSE @]

\* A construction with an unset phone that succeeded.
C9_Witness ==
  /\ recCall.op = "construct" /\ ~recCall.raised
  /\ recCall.args.phone = NoneVal
  /\ rec # Nobody /\ rec.phone = <<>>

\* C10: every Record that exists has a non-blank name and a non-blank
\* address, also after an update() that raised.
C10_RecordNeverBlank ==
  rec # Nobody => ~IsBlankText(rec.customer_name) /\ ~IsBlankText(rec.address)

\* A row of n empty cells.
BlankRow(n) == [j \in 1..n |-> NaN]

\* The rows of f from its header row on.
FromHeader(f) == SubSeq(f.rows, find_header_row(f.rows), Len(f.rows))

\* The sheet `rows` with k blank rows placed above it.
OffsetBy(rows, k) == [i \in 1..k |-> BlankRow(Len(rows[1]))] \o rows

HasHeader(f) == ~read_raises(f) /\ find_header_row(f.rows) # 0

\* C11: what load() returns on a file with a header is what it returns on
\* the header and data rows alone (header at row 1), and placing k blank
\* rows above them, k in 0..4, gives the same sequence of records.
C11_OffsetHeaderSameLoad ==
  (last.op = "load" /\ HasHeader(last.pre)) =>
     \A base \in {FromHeader(last.pre)} :
        /\ last.out = load_customers(Sheet(base))
        /\ \A k \in 0..4 : load_customers(Sheet(OffsetBy(base, k))) = last.out

\* A load() that returned two records from a sheet whose header is below a
\* blank row.
C11_Witness ==
  /\ last.op = "load" /\ HasHeader(last.pre)
  /\ find_header_row(last.pre.rows) = 2
  /\ Len(last.out) = 2

\* Some cell of the row, trimmed, is exactly PHONE.
ExactPhoneRow(row) ==
  \E j \in 1..Len(row) : ~isna(row[j]) /\ strip(str(row[j])) = H_PHONE

\* The rows among the first five of `rows` that have such a cell.
ExactPhoneRows(rows) ==
  {i \in 1..(IF Len(rows) < 5 THEN Len(rows) ELSE 5) : ExactPhoneRow(rows[i])}

\* C12: header discovery selects the first of the first five rows that has
\* a cell whose trimmed text equals PHONE, a row that only contains PHONE
\* inside longer text is not selected, and when no row qualifies the result
\* is 'not found' and load() returns the empty sequence.
C12_HeaderIsExactPhone ==
  (last.op = "load" /\ ~read_raises(last.pre)) =>
     \A exact \in {ExactPhoneRows(last.pre.rows)} :
        /\ find_header_row(last.pre.rows) = IF exact = {} THEN 0 ELSE Min(exact)
        /\ exact = {} => last.out = <<>>

\* The header cells of f, trimmed (an empty cell stays empty).
TrimmedHeader(f) ==
  [j \in 1..Len(f.rows[find_header_row(f.rows)]) |->
     IF isna(f.rows[find_header_row(f.rows)][j]) THEN NaN
     ELSE strip(str(f.rows[find_header_row(f.rows)][j]))]

\* C13: in every load, add, update and delete on a file with a header, the
\* column map binds each of the seven names to the index of the first
\* header cell, left to right, whose trimmed text equals it, and names
\* without such a cell are absent from the map.
C13_ColumnMapFirst ==
  (last.op \in {"load", "add", "update", "delete"} /\ HasHeader(last.pre)) =>
     \A hs \in {TrimmedHeader(last.pre)},
        cm \in {column_mapping(last.pre.rows[find_header_row(last.pre.rows)])} :
        /\ DOMAIN cm = {g \in HeaderSet : \E j \in 1..Len(hs) : hs[j] = g}
        /\ \A g \in DOMAIN cm : cm[g] = Min({j \in 1..Len(hs) : hs[j] = g})

\* The cell of the row under header g is present and not blank.
PresentCell(row, cm, g) ==
  g \in DOMAIN cm /\ ~isna(row[cm[g]]) /\ ~IsBlankText(str(row[cm[g]]))

\* The field read from the row under header g: '' when the column or the
\* cell is missing, else the trimmed text with line breaks replaced.
FieldText(row, cm, g) ==
  IF g \notin DOMAIN cm THEN <<>>
  ELSE IF isna(row[cm[g]]) THEN <<>>
  ELSE replace_newlines(strip(str(row[cm[g]])))

\* C14: load() returns, in file order, exactly one record for each data row
\* below the header whose phone, name and address cells are present and
\* not blank, and skips every other row; each field is the cell's text and
\* a missing optional field reads as the empty string.
C14_LoadKeepsCompleteRows ==
  (last.op = "load" /\ HasHeader(last.pre)) =>
     \A rows \in {last.pre.rows}, h \in {find_header_row(last.pre.rows)} :
        LET cm == column_mapping(rows[h])
            Keep(i) == \A g \in {H_PHONE, H_NAME, H_ADDRESS} :
                          PresentCell(rows[i], cm, g)
            kept == SelectSeq([i \in 1..(Len(rows) - h) |-> h + i], Keep)
        IN last.out =
             [k \in 1..Len(kept) |->
                Customer(FieldText(rows[kept[k]], cm, H_PHONE),
                         FieldText(rows[kept[k]], cm, H_NAME),
                         FieldText(rows[kept[k]], cm, H_SCH),
                         FieldText(rows[kept[k]], cm, H_APT),
                         FieldText(rows[kept[k]], cm, H_ADDRESS),
                         FieldText(rows[kept[k]], cm, H_SUBURB),
                         FieldText(rows[kept[k]], cm, H_PC))]

\* A load() of a sheet with two data rows that skipped the first (blank
\* phone) and returned the second, whose suburb is missing.
C14_Witness ==
  /\ last.op = "load" /\ HasHeader(last.pre)
  /\ DataRows(last.pre) = 2
  /\ Len(last.out) = 1
  /\ last.out[1].suburb = <<>>
  /\ ~PresentCell(last.pre.rows[find_header_row(last.pre.rows) + 1],
                  column_mapping(last.pre.rows[find_header_row(last.pre.rows)]),
                  H_PHONE)

\* The number of positions of seq that hold x.
Count(seq, x) == Cardinality({i \in 1..Len(seq) : seq[i] = x})

NamesOf(cs) == [i \in 1..Len(cs) |-> cs[i].customer_name]

\* seq is in case-insensitive name order from position a to position b.
NameSorted(seq, a, b) ==
  \A i, j \in a..b :
     i < j => ~StrLess(Lower(seq[j].customer_name), Lower(seq[i].customer_name))

\* The name of c starts with ql; ql occurs in one of the searched fields.
IsPrefixMatch(c, ql) ==
  Len(ql) <= Len(c.customer_name)
    /\ \A i \in 1..Len(ql) : LowerChar(c.customer_name[i]) = ql[i]

IsSubstringMatch(c, ql) ==
  \E t \in {c.customer_name, c.phone, c.suburb, c.postal_code} :
     \E i \in 0..(Len(t) - Len(ql)) :
        \A k \in 1..Len(ql) : LowerChar(t[i + k]) = ql[k]

\* C15: for a non-blank query the ranked result holds exactly the cached
\* records that match (prefix or substring), every prefix match before
\* every other match, each of the two parts in case-insensitive name order.
C15_PrefixThenSubstring ==
  (last.op = "f_search" /\ strip(last.query) # <<>>) =>
     \A ql \in {strip(Lower(last.query))} :
        /\ filtered_customers = last.out
        /\ \A c \in Range(customers) \cup Range(last.out) :
              Count(last.out, c) =
                IF IsPrefixMatch(c, ql) \/ IsSubstringMatch(c, ql)
                THEN Count(customers, c) ELSE 0
        /\ \A n \in {Cardinality({i \in 1..Len(last.out) :
                                    IsPrefixMatch(last.out[i], ql)})} :
              /\ \A i \in 1..n : IsPrefixMatch(last.out[i], ql)
              /\ NameSorted(last.out, 1, n)
              /\ NameSorted(last.out, n + 1, Len(last.out))

\* A ranked search whose result has a prefix match followed by two
\* substring matches, out of a cache that holds them in another order.
C15_Witness ==
  /\ last.op = "f_search" /\ strip(last.query) # <<>>
  /\ Len(last.out) = 3
  /\ IsPrefixMatch(last.out[1], strip(Lower(last.query)))
  /\ ~IsPrefixMatch(last.out[2], strip(Lower(last.query)))
  /\ last.out # customers

\* The cache holds exactly the three records of the example.
ExampleCache ==
  Len(customers) = 3 /\ Range(NamesOf(customers)) = {AnnSmith, BanningLee, CarlaAnn}

\* C16 as stated: with records named Ann Smith, Banning Lee and Carla Ann
\* and the query "ann", the ranked result is Ann Smith, Carla Ann, Banning
\* Lee.
C16_ExampleOrder ==
  (last.op = "f_search" /\ last.query = <<"a", "n", "n">> /\ ExampleCache) =>
     NamesOf(last.out) = <<AnnSmith, CarlaAnn, BanningLee>>

\* C16 amended: with those records and that query the ranked result is Ann
\* Smith (the prefix match), then Banning Lee, then Carla Ann (the
\* substring matches in name order).
C16_ExampleOrderByName ==
  (last.op = "f_search" /\ last.query = <<"a", "n", "n">> /\ ExampleCache) =>
     NamesOf(last.out) = <<AnnSmith, BanningLee, CarlaAnn>>

\* The example's search on a cache that holds Carla Ann before Banning Lee.
C16_Witness ==
  /\ last.op = "f_search" /\ last.query = <<"a", "n", "n">> /\ ExampleCache
  /\ NamesOf(customers) = <<CarlaAnn, BanningLee, AnnSmith>>
  /\ Len(last.out) = 3

\* C17: when two sessions read the file before either wrote and both calls
\* returned true, the file is what the later writer's call makes of the
\* sheet both read: the earlier writer's change is not in it (after two
\* adds of different new keys, load() has the later record and not the
\* earlier one).
C17_LaterWriterOverwrites ==
  \A x \in Sessions, y \in Sessions :
     (race.order = <<x, y>> /\ race.s[x].df = race.s[y].df) =>
        \A a \in {race.s[x]}, b \in {race.s[y]} :
           /\ a.ok /\ b.ok
           /\ file = session_rewrite(b.op, b.df, b.df, writable, b.c, b.c2).file
           /\ (a.op = "add" /\ b.op = "add" /\ KeyOf(a.c) # KeyOf(b.c)
                 /\ ~HasKey(load_customers(a.df), KeyOf(a.c)))
                => ~HasKey(load_customers(file), KeyOf(a.c))

\* Both sessions read the same sheet, both adds returned true, and load()
\* shows the second writer's record without the first writer's.
C17_Witness ==
  \E x \in Sessions, y \in Sessions :
     /\ race.order = <<x, y>> /\ race.s[x].df = race.s[y].df
     /\ race.s[x].ok /\ race.s[y].ok
     /\ race.s[x].op = "add" /\ race.s[y].op = "add"
     /\ HasKey(load_customers(file), KeyOf(race.s[y].c))
     /\ ~HasKey(load_customers(file), KeyOf(race.s[x].c))
     /\ HasKey(load_customers(Sheet(to_excel(
                  session_rewrite("add", race.s[x].df, race.s[x].df, TRUE,
                                  race.s[x].c, Nobody).file.rows))),
               KeyOf(race.s[x].c))

\* C18: search(query) returns, in load order, exactly the loaded records
\* for which the trimmed, lower-cased query occurs in the lower-cased name,
\* phone, suburb or postal code (address and apartment are not searched),
\* and for an empty or whitespace-only query what load() returns.
C18_StoreSearchFilters ==
  last.op = "search" =>
     \A loaded \in {load_customers(last.pre)} :
        LET Hit(c) == IsSubstringMatch(c, strip(Lower(last.query)))
        IN IF IsBlankText(last.query) THEN last.out = loaded
           ELSE last.out = SelectSeq(loaded, Hit)

\* A search whose query occurs in the address of every loaded record, in
\* the apartment of one and in no searched field, and which returned
\* nothing.
C18_Witness ==
  /\ last.op = "search" /\ ~IsBlankText(last.query)
  /\ Len(load_customers(last.pre)) = 2
  /\ \A i \in 1..2 :
        Contains(strip(Lower(last.query)), Lower(load_customers(last.pre)[i].address))
  /\ \E i \in 1..2 :
        Contains(strip(Lower(last.query)), Lower(load_customers(last.pre)[i].apartment_no))
  /\ last.out = <<>>

\* seq holds every element of cs exactly as often as cs does, in
\* case-insensitive name order.
SortedCopy(seq, cs) ==
  /\ Len(seq) = Len(cs)
  /\ \A c \in Range(cs) \cup Range(seq) : Count(seq, c) = Count(cs, c)
  /\ NameSorted(seq, 1, Len(seq))

\* C19: for a blank query the ranked result is every cached record exactly
\* once in case-insensitive name order, and the Facade's filtered view is
\* that same list right after construction and after every load.
C19_BlankQuerySortsAll ==
  /\ (last.op = "f_search" /\ IsBlankText(last.query)) =>
        last.out = filtered_customers /\ SortedCopy(last.out, customers)
  /\ last.op \in {"f_init", "f_load"} =>
        SortedCopy(filtered_customers, customers)

\* A search with a blank query on a cache of two records that are not in
\* name order.
C19_Witness ==
  /\ last.op = "f_search" /\ IsBlankText(last.query)
  /\ Len(customers) = 2
  /\ last.out # customers

\* C20: reading the rows of a non-empty CSV or XLSX export back through
\* load()'s parsing (header discovery, column map, required-field filter)
\* gives the exported records, field for field.
C20_ExportRoundTrip ==
  (last.op \in {"export_csv", "export_xlsx"} /\ filtered_customers # <<>>) =>
     load_customers(Sheet(to_excel(last.out))) = filtered_customers

\* C21: a successful backup() leaves at the backup path the content the
\* backing file had at the call and leaves the backing file unchanged; a
\* backup() that cannot copy (no file, or the path cannot be written)
\* returns false without raising and leaves the backing file unchanged.
C21_BackupCopies ==
  last.op = "backup" =>
     /\ file = last.pre
     /\ ~last.raised
     /\ last.ok => backup = last.pre
     /\ (~last.pre.exists \/ ~writable) => ~last.ok

\* A successful backup of a sheet that holds a data row.
C21_Witness ==
  /\ last.op = "backup" /\ last.ok
  /\ HasHeader(last.pre) /\ DataRows(last.pre) >= 1
  /\ backup = file

\* A record whose phone, name and address are all non-blank.
ValidWithPhone(c) ==
  ~IsBlankText(c.phone) /\ ~IsBlankText(c.customer_name) /\ ~IsBlankText(c.address)

C23_InitKeepsExistingFile ==
  (last.op = "init" /\ last.pre.exists) => file = last.pre

\* The number of records of cs whose field g is not blank.
NonBlankCount(cs, g) == Cardinality({i \in 1..Len(cs) : ~IsBlankText(to_dict(cs[i])[g])})

\* C24: statistics() reports as total the number of records load() returns
\* and, for phone, address, suburb and postal code, the number of those
\* records whose field is not blank; each of the four counts is at most
\* the total.
C24_StatisticsCounts ==
  last.op = "statistics" =>
     \A st \in {last.out[1]} : \A cs \in {load_customers(last.pre)} :
        /\ st.total_customers = Len(cs)
        /\ st.customers_with_phone = NonBlankCount(cs, H_PHONE)
        /\ st.customers_with_address = NonBlankCount(cs, H_ADDRESS)
        /\ st.customers_with_suburb = NonBlankCount(cs, H_SUBURB)
        /\ st.customers_with_postal_code = NonBlankCount(cs, H_PC)
        /\ st.customers_with_phone <= st.total_customers
        /\ st.customers_with_address <= st.total_customers
        /\ st.customers_with_suburb <= st.total_customers
        /\ st.customers_with_postal_code <= st.total_customers

\* Statistics over two records of which one has a suburb.
C24_Witness ==
  /\ last.op = "statistics"
  /\ last.out[1].total_customers = 2
  /\ last.out[1].customers_with_suburb = 1

\* C25: a successful add(r) appends exactly one row after the current last
\* row and changes no existing row; load() after the add is load() before
\* it with at most one record, r, appended at the end (r as given or as
\* load() returns it, trimmed).
C25_AddAppendsOneRow ==
  (last.op = "add" /\ last.ok) =>
     /\ Len(file.rows) = Len(last.pre.rows) + 1
     /\ SubSeq(file.rows, 1, Len(last.pre.rows)) = last.pre.rows
     /\ \A before \in {load_customers(last.pre)} :
           load_customers(file) \in
              {before, Append(before, last.c), Append(before, Normalized(last.c))}

\* The rows of f without row r, the rows below it moved up by one.
WithoutRow(f, r) ==
  [i \in 1..(Len(f.rows) - 1) |-> f.rows[IF i < r THEN i ELSE i + 1]]

\* C26 as stated: a successful delete(r) removes exactly one row, the first
\* row from the top whose key equals r's; every other row (the header row,
\* the rows above it and the remaining data rows) keeps its cells and its
\* relative order, and no gap is left in the row sequence.
C26_DeleteRemovesFirstOnly ==
  (last.op = "delete" /\ last.ok) =>
     \A first \in {Min(MatchingRows(last.pre, last.c))} :
        file.rows = WithoutRow(last.pre, first)

\* C26 amended: the same, except that empty rows which the removal leaves
\* at the end of the sheet are not kept either.
C26_DeleteRemovesFirstAndTrailingEmpty ==
  (last.op = "delete" /\ last.ok) =>
     \A rest \in {WithoutRow(last.pre, Min(MatchingRows(last.pre, last.c)))} :
        /\ Len(file.rows) <= Len(rest)
        /\ \A i \in 1..Len(rest) :
              IF i <= Len(file.rows) THEN file.rows[i] = rest[i]
              ELSE rest[i] = BlankRow(Len(rest[i]))
        /\ file.rows # <<>> =>
              file.rows[Len(file.rows)] # BlankRow(Len(file.rows[Len(file.rows)]))

\* A successful delete on a sheet with two rows of r's key that differ in
\* another cell: the second one is now where the first was.
C26_Witness ==
  /\ last.op = "delete" /\ last.ok
  /\ Cardinality(MatchingRows(last.pre, last.c)) = 2
  /\ \A first \in {Min(MatchingRows(last.pre, last.c))} :
        /\ last.pre.rows[first] # last.pre.rows[first + 1]
        /\ file.rows[first] = last.pre.rows[first + 1]

\* A successful delete of the last row of a sheet whose row above it is
\* empty: both rows are gone.
C26_WitnessTrailing ==
  /\ last.op = "delete" /\ last.ok
  /\ Len(file.rows) = Len(last.pre.rows) - 2

ReadOnlyOps == {"load", "search", "statistics"}

C27_WitnessExisting ==
  /\ last.op = "load" /\ last.pre.exists /\ Len(last.out) >= 1

\* C28: the Facade search over the cached records returns, as a multiset,
\* exactly the records Store.search returns for the same query over the
\* same records: each matching record once, only the order may differ.
C28_RankerSameAsStoreSearch ==
  last.op = "f_search" =>
     \A found \in {store_search(file, last.query)} :
        /\ Len(last.out) = Len(found)
        /\ \A c \in RankerCustomers : Count(last.out, c) = Count(found, c)

\* A search with a non-blank query that returned a prefix match and
\* another match, in an order other than the sheet's.
C28_Witness ==
  /\ last.op = "f_search" /\ strip(last.query) # <<>>
  /\ customers = load_customers(file)
  /\ Len(last.out) >= 2
  /\ StartsWith(NameKey(last.out[1]), strip(Lower(last.query)))
  /\ last.out # store_search(file, last.query)

\* C29: in every state reachable by Facade load, search, add, update and
\* delete calls, every record of filtered_customers also occurs in
\* customers, as many times at least (filtered is a sub-multiset of the
\* cached records).
C29_FilteredWithinCustomers ==
  \A i \in 1..Len(filtered_customers) :
     Count(filtered_customers, filtered_customers[i])
       <= Count(customers, filtered_customers[i])

\* C30 as stated: for a valid record r with non-blank phone, a successful
\* add(r) immediately followed by a successful delete(r) restores the
\* store: load() afterwards returns the sequence load() returned before
\* the add, also when the file already held a row with r's natural key.
C30_AddDeleteRestores ==
  (last.op = "add" /\ last.ok /\ ValidWithPhone(last.c)) =>
     \A res \in {delete_customer(file, writable, last.c)} :
        res.ok => load_customers(res.file) = load_customers(last.pre)

\* C30 amended: the same, provided no row of the file had r's natural key
\* before the add.
C30_AddDeleteRestoresIfNew ==
  (last.op = "add" /\ last.ok /\ ValidWithPhone(last.c)
     /\ MatchingRows(last.pre, last.c) = {}) =>
     \A res \in {delete_customer(file, writable, last.c)} :
        res.ok => load_customers(res.file) = load_customers(last.pre)

\* A successful add of a record with a new key to a sheet that load()
\* returns a record from, after which delete(r) succeeds.
C30_Witness ==
  /\ last.op = "add" /\ last.ok /\ ValidWithPhone(last.c)
  /\ MatchingRows(last.pre, last.c) = {}
  /\ load_customers(last.pre) # <<>>
  /\ load_customers(file) # load_customers(last.pre)
  /\ delete_customer(file, writable, last.c).ok

====
